---- MODULE Spec2Model ----
(***************************************************************************)
(* Image-Difference-Detector: the comparison service (compareImages,       *)
(* extractJsonObject, createHighlightedImage), the output directory helper *)
(* (ensureOutputDir) and the POST /compare route, as a state machine.      *)
(***************************************************************************)
EXTENDS Integers, Sequences, FiniteSets, TLC

(* ------------------------------ bounds -------------------------------- *)
\* concurrent requests served by the route
NumProcs == 2
\* longest differences list the inference service returns
MaxDiffs == 2
\* largest claimed (processed) width / height
MaxClaimed == 2
\* true decoded size of the target image
TrueW == 2
TrueH == 3
\* highlight_area coordinates: one negative, one small, one large
NegCoord == 1
InCoord == 1
MaxCoord == 3
\* last millisecond the wall clock reaches
MaxClock == 1

(* ------------------------- program constants -------------------------- *)
legendHeight == 40
legendSpacing == 20

Procs == 1..NumProcs

(* --------------------- IEEE-754 values used by the drawing code ------- *)
\* A JS number is a finite rational n/d (d > 0, lowest terms), +Infinity,
\* -Infinity or NaN.
RECURSIVE GCD(_, _)
GCD(a, b) == IF b = 0 THEN a ELSE GCD(b, a % b)

Abs(a) == IF a < 0 THEN -a ELSE a

Fin(n, d) ==
    LET g == GCD(Abs(n), d)
    IN  [k |-> "fin", n |-> n \div g, d |-> d \div g]

PosInf == [k |-> "inf"]
NegInf == [k |-> "ninf"]
NaN == [k |-> "nan"]
Num(i) == Fin(i, 1)

\* a / b for two integers, as JS evaluates it (no exception on b = 0)
Div(a, b) ==
    IF b = 0
    THEN IF a > 0 THEN PosInf ELSE IF a < 0 THEN NegInf ELSE NaN
    ELSE IF b > 0 THEN Fin(a, b) ELSE Fin(-a, -b)

\* x * s for an integer x and a JS number s
Mul(x, s) ==
    CASE s.k = "fin" -> Fin(x * s.n, s.d)
      [] s.k = "nan" -> NaN
      [] s.k = "inf" -> IF x > 0 THEN PosInf ELSE IF x < 0 THEN NegInf ELSE NaN
      [] s.k = "ninf" -> IF x > 0 THEN NegInf ELSE IF x < 0 THEN PosInf ELSE NaN

\* u <= v on JS numbers (false as soon as one side is NaN)
Leq(u, v) ==
    CASE u.k = "nan" \/ v.k = "nan" -> FALSE
      [] u.k = "ninf" \/ v.k = "inf" -> TRUE
      [] u.k = "inf" \/ v.k = "ninf" -> FALSE
      [] OTHER -> u.n * v.d <= v.n * u.d

\* Math.max(a, v) and Math.min(a, v) for an integer a
MathMax(a, v) ==
    CASE v.k = "nan" -> NaN
      [] v.k = "inf" -> PosInf
      [] v.k = "ninf" -> Num(a)
      [] OTHER -> IF a * v.d >= v.n THEN Num(a) ELSE v

MathMin(a, v) ==
    CASE v.k = "nan" -> NaN
      [] v.k = "inf" -> Num(a)
      [] v.k = "ninf" -> NegInf
      [] OTHER -> IF a * v.d <= v.n THEN Num(a) ELSE v

\* u - v on JS numbers
Sub(u, v) ==
    CASE u.k = "nan" \/ v.k = "nan" -> NaN
      [] u.k = "fin" /\ v.k = "fin" -> Fin(u.n * v.d - v.n * u.d, u.d * v.d)
      [] u.k = "fin" -> IF v.k = "inf" THEN NegInf ELSE PosInf
      [] v.k = "fin" -> u
      [] OTHER -> IF u.k = v.k THEN NaN ELSE u

\* v + i for an integer i
AddInt(v, i) == IF v.k = "fin" THEN Fin(v.n + i * v.d, v.d) ELSE v

(* ------------------------- values found in text ------------------------ *)
\* Pieces of console output and of error messages: a literal string, a
\* response text, or an error object.
Str(s) == [str |-> s]
Txt(c) == [txt |-> c]
ErrVal(e) == [err |-> e]

\* seq mentions the value v
Carries(seq, v) == \E i \in DOMAIN seq : seq[i] = v

JsError(name, message) == [name |-> name, message |-> message]

Null == [null |-> TRUE]
Undefined == [undefined |-> TRUE]

(* ------------------- the inference service's response ------------------ *)
\* A response text is a sequence of segments: prose, or a fenced block
\* ```tag\n{ "key" ... }\n``` whose body parses to `value` (a block whose
\* body is not valid JSON has no value).
Prose == [kind |-> "prose"]
Fence(tag, key, value) == [kind |-> "fence", tag |-> tag, key |-> key, value |-> value]
BadFence(tag, key) == [kind |-> "fence", tag |-> tag, key |-> key]

Coords == {-NegCoord, InCoord, MaxCoord}

\* highlight_area boxes: both axes taking the same pair of coordinates, and
\* boxes inside the frame horizontally with any pair of vertical coordinates
Boxes ==
    {[x1 |-> a, y1 |-> a, x2 |-> b, y2 |-> b] : a \in Coords, b \in Coords}
    \cup {[x1 |-> 0, y1 |-> a, x2 |-> InCoord, y2 |-> b] : a \in Coords, b \in Coords}

\* difference records: with a highlight_area, or without one
DiffPool ==
    {[type |-> "text_change", highlight_area |-> b] : b \in Boxes}
    \cup {[type |-> "mystery", highlight_area |->
              [x1 |-> 0, y1 |-> 0, x2 |-> InCoord, y2 |-> InCoord]]}
    \cup {[type |-> "layout_change"]}

DiffLists == UNION {[1..n -> DiffPool] : n \in 0..MaxDiffs}

ClaimedDims ==
    {[width |-> c, height |-> c] : c \in 1..MaxClaimed}
    \cup {[width |-> 0, height |-> MaxClaimed],
          [width |-> MaxClaimed, height |-> 0],
          [width |-> 0, height |-> 0]}

Image1Dims == [width |-> MaxClaimed, height |-> MaxClaimed]

DimensionBlocks ==
    {<<>>, <<BadFence("json", "processed_dimensions")>>,
     <<Fence("json", "processed_dimensions",
             [processed_dimensions |-> [image1 |-> Image1Dims]])>>}
    \cup {<<Fence("json", "processed_dimensions",
                  [processed_dimensions |-> [image1 |-> Image1Dims, image2 |-> d]])>>
          : d \in ClaimedDims}

DifferenceBlocks ==
    {<<>>, <<BadFence("json", "differences")>>,
     <<Fence("text", "differences", [differences |-> <<>>])>>}
    \cup {<<Fence("JSON", "differences", [differences |-> l])>> : l \in DiffLists}

Responses ==
    {<<Prose>> \o d \o <<Prose>> \o f : d \in DimensionBlocks, f \in DifferenceBlocks}

\* the responses used when several comparisons run side by side
OneBox == [type |-> "text_change", highlight_area |->
              [x1 |-> 0, y1 |-> 0, x2 |-> InCoord, y2 |-> InCoord]]

ConcResponses ==
    {<<Prose,
       Fence("json", "processed_dimensions",
             [processed_dimensions |->
                 [image1 |-> Image1Dims, image2 |-> [width |-> 1, height |-> 1]]]),
       Prose>> \o f
     : f \in {<<>>, <<Fence("json", "differences", [differences |-> <<>>])>>,
              <<Fence("json", "differences", [differences |-> <<OneBox>>])>>}}

(* --------------------------- extractJsonObject ------------------------- *)
\* the regular expression is compiled with the 'i' flag
Lower(tag) == IF tag = "JSON" THEN "json" ELSE tag

MinOf(S) == CHOOSE m \in S : \A n \in S : m <= n

NotFoundMessage(objectName) ==
    <<Str("Could not find "), Str(objectName), Str(" JSON block in the response")>>

\* a variant that prints the error message only
ExtractLogWithoutContent(jsonString, objectName, error) ==
    << <<Str("Error extracting "), Str(objectName), Str(":")>> \o error.message >>

ExtractLog(jsonString, objectName, error) ==
    << <<Str("Error extracting "), Str(objectName), Str(":")>> \o error.message,
       <<Str("Raw content:"), Txt(jsonString)>> >>

\* extractJsonObject(jsonString, objectName): the parsed body of the first
\* matching block, or the error thrown together with what was logged.
extractJsonObject(jsonString, objectName) ==
    LET hits == {i \in DOMAIN jsonString :
                    /\ jsonString[i].kind = "fence"
                    /\ Lower(jsonString[i].tag) = "json"
                    /\ jsonString[i].key = objectName}
        notFound == JsError("Error", NotFoundMessage(objectName))
        syntax == JsError("SyntaxError", <<Str("Unexpected token in JSON")>>)
    IN  IF hits = {}
        THEN [threw |-> TRUE, error |-> notFound,
              logged |-> ExtractLog(jsonString, objectName, notFound)]
        ELSE IF "value" \in DOMAIN jsonString[MinOf(hits)]
             THEN [threw |-> FALSE, value |-> jsonString[MinOf(hits)].value]
             ELSE [threw |-> TRUE, error |-> syntax,
                   logged |-> ExtractLog(jsonString, objectName, syntax)]

(* ------------------------ createHighlightedImage ----------------------- *)
\* a variant of the guard that does not look at the length of the list
NothingToHighlightIgnoresLength(differences) ==
    \/ differences = Null
    \/ "differences" \notin DOMAIN differences

\* the guard that returns null before anything is loaded
NothingToHighlight(differences) ==
    \/ differences = Null
    \/ "differences" \notin DOMAIN differences
    \/ Len(differences.differences) = 0

\* colorSchemes[diff.type] || colorSchemes.default
colorSchemes(type) ==
    CASE type = "text_change" -> [stroke |-> "red", fill |-> "red"]
      [] type = "layout_change" -> [stroke |-> "blue", fill |-> "blue"]
      [] type = "element_added" -> [stroke |-> "green", fill |-> "green"]
      [] type = "element_removed" -> [stroke |-> "orange", fill |-> "orange"]
      [] type = "style_change" -> [stroke |-> "purple", fill |-> "purple"]
      [] OTHER -> [stroke |-> "red", fill |-> "red"]

\* the scaled and clamped box of one highlight_area
ScaledBox(area, scaleX, scaleY, imageWidth, imageHeight) ==
    LET scaledX1 == MathMax(0, Mul(area.x1, scaleX))
        scaledY1 == MathMax(0, Mul(area.y1, scaleY))
        scaledX2 == MathMin(imageWidth, Mul(area.x2, scaleX))
        scaledY2 == MathMin(imageHeight, Mul(area.y2, scaleY))
    IN  [scaledX1 |-> scaledX1, scaledY1 |-> scaledY1,
         scaledX2 |-> scaledX2, scaledY2 |-> scaledY2,
         width |-> Sub(scaledX2, scaledX1), height |-> Sub(scaledY2, scaledY1)]

\* the body of the forEach callback: the calls issued on the expanded
\* context for the record at 0-based position index
HighlightCalls(diff, index, scaleX, scaleY, imageWidth, imageHeight) ==
    IF "highlight_area" \in DOMAIN diff
    THEN LET b == ScaledBox(diff.highlight_area, scaleX, scaleY, imageWidth, imageHeight)
             c == colorSchemes(diff.type)
         IN  << [op |-> "strokeRect", style |-> c.stroke, index |-> index,
                 x |-> b.scaledX1, y |-> b.scaledY1, w |-> b.width, h |-> b.height],
                [op |-> "fillRect", style |-> c.fill, index |-> index,
                 x |-> b.scaledX1, y |-> b.scaledY1, w |-> b.width, h |-> b.height],
                [op |-> "strokeText", text |-> <<ToString(index + 1)>>, index |-> index,
                 x |-> AddInt(b.scaledX1, 5), y |-> AddInt(b.scaledY1, 15)],
                [op |-> "fillText", text |-> <<ToString(index + 1)>>, index |-> index,
                 x |-> AddInt(b.scaledX1, 5), y |-> AddInt(b.scaledY1, 15)] >>
    ELSE <<>>

\* a variant of the loop that drops the records without highlight_area
\* before numbering, so that the records after them move up
RECURSIVE RenumberedCalls(_, _, _, _, _, _)
RenumberedCalls(list, index, scaleX, scaleY, imageWidth, imageHeight) ==
    IF index >= Len(list)
    THEN <<>>
    ELSE HighlightCalls(list[index + 1], index, scaleX, scaleY, imageWidth, imageHeight)
         \o RenumberedCalls(list, index + 1, scaleX, scaleY, imageWidth, imageHeight)

ForEachCallsRenumbered(list, index, scaleX, scaleY, imageWidth, imageHeight) ==
    LET HasArea(d) == "highlight_area" \in DOMAIN d
    IN  RenumberedCalls(SelectSeq(list, HasArea), index, scaleX, scaleY,
                        imageWidth, imageHeight)

\* differences.differences.forEach(...): records index..Len in list order
RECURSIVE ForEachCalls(_, _, _, _, _, _)
ForEachCalls(list, index, scaleX, scaleY, imageWidth, imageHeight) ==
    IF index >= Len(list)
    THEN <<>>
    ELSE HighlightCalls(list[index + 1], index, scaleX, scaleY, imageWidth, imageHeight)
         \o ForEachCalls(list, index + 1, scaleX, scaleY, imageWidth, imageHeight)

\* ctx.drawImage(image, 0, 0, image.width, image.height) on the first canvas
SourceCalls(imageWidth, imageHeight) ==
    << [op |-> "drawImage", ctx |-> "ctx", source |-> "image",
        x |-> Num(0), y |-> Num(0), w |-> Num(imageWidth), h |-> Num(imageHeight)] >>

\* the calls issued before the boxes: the image on the first canvas, the
\* first canvas on the expanded canvas, the legend band and the legend text
LegendCalls(list, imageWidth, imageHeight) ==
    SourceCalls(imageWidth, imageHeight) \o
    << [op |-> "drawImage", ctx |-> "expandedCtx", source |-> "canvas",
        x |-> Num(0), y |-> Num(0)],
       [op |-> "fillRect", style |-> "legend",
        x |-> Num(0), y |-> Num(imageHeight),
        w |-> Num(imageWidth), h |-> Num(legendHeight)],
       [op |-> "fillText", text |-> <<ToString(Len(list)), " UI differences detected">>,
        x |-> Num(legendSpacing), y |-> Num(imageHeight + 25)] >>

\* everything between the image load and the file write: a TypeError when
\* processedDims is undefined, else the scale factors and the draw calls.
Render(differences, processedDims, imageWidth, imageHeight) ==
    IF processedDims = Undefined
    THEN [threw |-> TRUE,
          error |-> JsError("TypeError", <<Str("Cannot read properties of undefined")>>),
          calls |-> SourceCalls(imageWidth, imageHeight)]
    ELSE LET scaleX == Div(imageWidth, processedDims.width)
             scaleY == Div(imageHeight, processedDims.height)
         IN  [threw |-> FALSE, scaleX |-> scaleX, scaleY |-> scaleY,
              calls |-> LegendCalls(differences.differences, imageWidth, imageHeight)
                        \o ForEachCalls(differences.differences, 0, scaleX, scaleY,
                                        imageWidth, imageHeight)]

(* ------------------------------ file names ----------------------------- *)
\* new Date(ms).toISOString(), as tokens (ms below one second)
toISOString(ms) ==
    <<"1970-01-01T00", ":", "00", ":", "00", ".",
      ToString((ms \div 100) % 10), ToString((ms \div 10) % 10), ToString(ms % 10), "Z">>

\* .replace(/[:.]/g, '-')
ReplacePunctuation(tokens) ==
    [i \in DOMAIN tokens |-> IF tokens[i] \in {":", "."} THEN "-" ELSE tokens[i]]

\* path.extname(file.originalname) of the upload in each form field
OriginalExt(i) == IF i = 1 THEN ".jpg" ELSE ".png"

\* multer's filename callback: Date.now() + path.extname(originalname)
UploadPath(now, ext) == [dir |-> "uploads", name |-> ToString(now), ext |-> ext]

\* a path as the text a template literal gives
PathText(path) == <<Str(path.dir), Str("/"), Str(path.name), Str(path.ext)>>

\* path.basename(imagePath, path.extname(imagePath))
baseFilename(imagePath) == imagePath.name

outputDir == "output"

OutputPath(imagePath, now) ==
    [dir |-> outputDir,
     file |-> <<"diff_", baseFilename(imagePath), "_">>
              \o ReplacePunctuation(toISOString(now)) \o <<".png">>]

(* -------------------------------- state -------------------------------- *)
VARIABLES
    pc,              \* where each request's handler stands
    image1Path,      \* the first uploaded image of each request
    image2Path,      \* the uploaded target image of each request
    content,         \* the response text of the inference call
    differences,     \* the parsed differences object
    processedDims,   \* processed_dimensions.image2 handed to the renderer
    inferenceCalls,  \* how many times anthropic.messages.create was issued
    loadCalls,       \* how many times loadImage was issued
    drawCalls,       \* the canvas calls issued, in order
    scale,           \* the scale factors computed, if any
    outputPath,      \* the path handed to fs.writeFile
    thrown,          \* the error compareImages threw
    result,          \* the object compareImages returned
    response,        \* the HTTP response of the route
    consoleError,    \* what console.error printed for the request
    outputDirExists, \* whether ./output exists
    outputFiles,     \* the files of ./output
    writeLog,        \* every file fs.writeFile opened: who, where, and whether
                     \* it was there before
    clock,           \* Date.now(), in milliseconds
    accessState,     \* the fs.access call on each image: none, pending, ok, failed
    readState,       \* the fs.readFile call on each image: none, pending, ok, failed
    ioCalls,         \* how many fs.access and fs.readFile calls were issued
    writeState       \* the fs.writeFile call: none, issued, open, failed, settled

vars == <<pc, image1Path, image2Path, content, differences, processedDims, inferenceCalls,
          loadCalls, drawCalls, scale, outputPath, thrown, result, response,
          consoleError, outputDirExists, outputFiles, writeLog, clock,
          accessState, readState, ioCalls, writeState>>

ioVars == <<accessState, readState, ioCalls>>

\* image1Path and image2Path
Images == {1, 2}

Init ==
    /\ pc = [p \in Procs |-> "idle"]
    /\ image1Path = [p \in Procs |-> Null]
    /\ image2Path = [p \in Procs |-> Null]
    /\ content = [p \in Procs |-> Null]
    /\ differences = [p \in Procs |-> Null]
    /\ processedDims = [p \in Procs |-> Null]
    /\ inferenceCalls = [p \in Procs |-> 0]
    /\ loadCalls = [p \in Procs |-> 0]
    /\ drawCalls = [p \in Procs |-> <<>>]
    /\ scale = [p \in Procs |-> Null]
    /\ outputPath = [p \in Procs |-> Null]
    /\ thrown = [p \in Procs |-> Null]
    /\ result = [p \in Procs |-> Null]
    /\ response = [p \in Procs |-> Null]
    /\ consoleError = [p \in Procs |-> <<>>]
    /\ outputDirExists = FALSE
    /\ outputFiles = {}
    /\ writeLog = {}
    /\ clock = 0
    /\ accessState = [p \in Procs |-> [i \in Images |-> "none"]]
    /\ readState = [p \in Procs |-> [i \in Images |-> "none"]]
    /\ ioCalls = [p \in Procs |-> [access |-> 0, read |-> 0]]
    /\ writeState = [p \in Procs |-> "none"]

(* --------------------------- compareImages ----------------------------- *)
\* the catch block of compareImages: log, rethrow
CompareThrows(p, error, logged) ==
    /\ pc' = [pc EXCEPT ![p] = "threw"]
    /\ thrown' = [thrown EXCEPT ![p] = error]
    /\ consoleError' = [consoleError EXCEPT ![p] =
           @ \o logged \o << <<Str("Error comparing images:"), ErrVal(error)>> >>]

\* the object compareImages returns
ComparisonResult(text, diffs, path, now) ==
    [processedDimensions |-> extractJsonObject(text, "processed_dimensions").value,
     differences |-> diffs,
     analysis |-> text,
     highlightedImagePath |-> path,
     timestamp |-> toISOString(now)]

\* createHighlightedImage resolved with `path`; compareImages returns
CompareReturns(p, path) ==
    /\ pc' = [pc EXCEPT ![p] = "returned"]
    /\ result' = [result EXCEPT ![p] =
           ComparisonResult(content[p], differences[p], path, clock)]

\* a variant of the catch block that resolves with null and prints nothing
HighlightFailsUnlogged(p, error) ==
    /\ CompareReturns(p, Null)
    /\ UNCHANGED consoleError

\* the catch block of createHighlightedImage: log, resolve with null
HighlightFails(p, error) ==
    /\ CompareReturns(p, Null)
    /\ consoleError' = [consoleError EXCEPT ![p] =
           @ \o << <<Str("Error creating highlighted image:"), ErrVal(error)>> >>]

\* a variant of the join that lets go as soon as one promise is fulfilled
AnyFulfilled(state) == \E i \in Images : state[i] = "ok"

\* Promise.all resolves once every promise handed to it is fulfilled
AllFulfilled(state) == \A i \in Images : state[i] = "ok"

\* the path compareImages was given for image i
ImagePath(p, i) == IF i = 1 THEN image1Path[p] ELSE image2Path[p]

\* multer stores the next file part of the request under a name taken from
\* the clock, or the request ends without that part
Upload(p) ==
    /\ pc[p] \in {"idle", "uploading"}
    /\ \E present \in BOOLEAN :
          IF pc[p] = "idle"
          THEN /\ image1Path' = [image1Path EXCEPT ![p] =
                      IF present THEN UploadPath(clock, OriginalExt(1)) ELSE Undefined]
               /\ pc' = [pc EXCEPT ![p] = "uploading"]
               /\ UNCHANGED image2Path
          ELSE /\ image2Path' = [image2Path EXCEPT ![p] =
                      IF present THEN UploadPath(clock, OriginalExt(2)) ELSE Undefined]
               /\ pc' = [pc EXCEPT ![p] = "uploaded"]
               /\ UNCHANGED image1Path
    /\ UNCHANGED <<content, differences, processedDims, inferenceCalls, loadCalls,
                   drawCalls, scale, outputPath, thrown, result, response,
                   consoleError, outputDirExists, outputFiles, writeLog, clock>>
    /\ UNCHANGED <<ioVars, writeState>>

\* the TypeError of req.files.image1Path[0] on a request without the file
MissingFileError ==
    JsError("TypeError", <<Str("Cannot read properties of undefined (reading '0')")>>)

\* the body the route's catch block sends
RouteErrorResponse(error) ==
    [status |-> 500, body |-> [success |-> FALSE, error |-> error.message]]

\* the handler of POST /compare runs: without both files it fails in the
\* route (compareImages is not called); else it calls compareImages, which
\* issues fs.access on both images
Request(p) ==
    /\ pc[p] = "uploaded"
    /\ IF Undefined \in {image1Path[p], image2Path[p]}
       THEN /\ pc' = [pc EXCEPT ![p] = "done"]
            /\ response' = [response EXCEPT ![p] = RouteErrorResponse(MissingFileError)]
            /\ consoleError' = [consoleError EXCEPT ![p] =
                   @ \o << <<Str("Error processing comparison:"),
                             ErrVal(MissingFileError)>> >>]
            /\ UNCHANGED <<accessState, ioCalls>>
       ELSE /\ pc' = [pc EXCEPT ![p] = "access"]
            /\ accessState' = [accessState EXCEPT ![p] = [i \in Images |-> "pending"]]
            /\ ioCalls' = [ioCalls EXCEPT ![p].access = @ + Cardinality(Images)]
            /\ UNCHANGED <<response, consoleError>>
    /\ UNCHANGED <<image1Path, image2Path, content, differences, processedDims,
                   inferenceCalls, loadCalls, drawCalls, scale, outputPath, thrown,
                   result, outputDirExists, outputFiles, writeLog, clock, readState,
                   writeState>>

\* one of the two fs.access calls settles. The first rejection rejects the
\* Promise.all and compareImages throws; once both are fulfilled the two
\* fs.readFile calls are issued; a call that settles after the rejection
\* changes nothing.
Access(p) ==
    /\ \E i \in Images : \E ok \in BOOLEAN :
          LET next == [accessState[p] EXCEPT ![i] = IF ok THEN "ok" ELSE "failed"]
          IN  /\ accessState[p][i] = "pending"
              /\ accessState' = [accessState EXCEPT ![p] = next]
              /\ IF pc[p] # "access"
                 THEN UNCHANGED <<pc, thrown, consoleError, readState, ioCalls>>
                 ELSE IF ~ok
                 THEN /\ CompareThrows(p,
                             JsError("Error", <<Str("Cannot access image: ")>>
                                               \o PathText(ImagePath(p, i))), <<>>)
                      /\ UNCHANGED <<readState, ioCalls>>
                 ELSE IF AllFulfilled(next)
                 THEN /\ pc' = [pc EXCEPT ![p] = "read"]
                      /\ readState' = [readState EXCEPT ![p] =
                             [j \in Images |-> "pending"]]
                      /\ ioCalls' = [ioCalls EXCEPT ![p].read = @ + Cardinality(Images)]
                      /\ UNCHANGED <<thrown, consoleError>>
                 ELSE UNCHANGED <<pc, thrown, consoleError, readState, ioCalls>>
    /\ UNCHANGED <<image1Path, image2Path, content, differences, processedDims, inferenceCalls,
                   loadCalls, drawCalls, scale, outputPath, result, response,
                   outputDirExists, outputFiles, writeLog, clock, writeState>>

\* one of the two fs.readFile calls settles. The first rejection rejects
\* the Promise.all and compareImages throws; once both are fulfilled the
\* inference call is issued; a call that settles after the rejection
\* changes nothing.
ReadFiles(p) ==
    /\ \E i \in Images : \E ok \in BOOLEAN :
          LET next == [readState[p] EXCEPT ![i] = IF ok THEN "ok" ELSE "failed"]
          IN  /\ readState[p][i] = "pending"
              /\ readState' = [readState EXCEPT ![p] = next]
              /\ IF pc[p] # "read"
                 THEN UNCHANGED <<pc, thrown, consoleError, inferenceCalls>>
                 ELSE IF ~ok
                 THEN /\ CompareThrows(p, JsError("Error", <<Str("ENOENT")>>), <<>>)
                      /\ UNCHANGED inferenceCalls
                 ELSE IF AllFulfilled(next)
                 THEN /\ pc' = [pc EXCEPT ![p] = "infer"]
                      /\ inferenceCalls' = [inferenceCalls EXCEPT ![p] = @ + 1]
                      /\ UNCHANGED <<thrown, consoleError>>
                 ELSE UNCHANGED <<pc, thrown, consoleError, inferenceCalls>>
    /\ UNCHANGED <<image1Path, image2Path, content, differences, processedDims, loadCalls,
                   drawCalls, scale, outputPath, result, response,
                   outputDirExists, outputFiles, writeLog, clock,
                   accessState, ioCalls, writeState>>

\* the inference call rejects
InferenceFails(p) ==
    /\ pc[p] = "infer"
    /\ CompareThrows(p, JsError("APIError", <<Str("request failed")>>), <<>>)
    /\ UNCHANGED <<image1Path, image2Path, content, differences, processedDims, inferenceCalls,
                   loadCalls, drawCalls, scale, outputPath, result, response,
                   outputDirExists, outputFiles, writeLog, clock>>
    /\ UNCHANGED <<ioVars, writeState>>

\* the inference call resolves with a text out of R: both blocks are
\* extracted and createHighlightedImage runs up to its first await
InferenceReturns(p, R) ==
    /\ pc[p] = "infer"
    /\ \E text \in R :
          LET dims == extractJsonObject(text, "processed_dimensions")
              diffs == extractJsonObject(text, "differences")
              image2 == IF "image2" \in DOMAIN dims.value.processed_dimensions
                        THEN dims.value.processed_dimensions.image2
                        ELSE Undefined
          IN  /\ content' = [content EXCEPT ![p] = text]
              /\ IF dims.threw
                 THEN /\ CompareThrows(p, dims.error, dims.logged)
                      /\ UNCHANGED <<differences, processedDims, loadCalls, result>>
                 ELSE IF diffs.threw
                 THEN /\ CompareThrows(p, diffs.error, diffs.logged)
                      /\ UNCHANGED <<differences, processedDims, loadCalls, result>>
                 ELSE /\ differences' = [differences EXCEPT ![p] = diffs.value]
                      /\ processedDims' = [processedDims EXCEPT ![p] = image2]
                      /\ IF NothingToHighlight(diffs.value)
                         THEN /\ pc' = [pc EXCEPT ![p] = "returned"]
                              /\ result' = [result EXCEPT ![p] =
                                    ComparisonResult(text, diffs.value, Null, clock)]
                              /\ UNCHANGED loadCalls
                         ELSE /\ pc' = [pc EXCEPT ![p] = "loading"]
                              /\ loadCalls' = [loadCalls EXCEPT ![p] = @ + 1]
                              /\ UNCHANGED result
                      /\ UNCHANGED <<thrown, consoleError>>
    /\ UNCHANGED <<image1Path, image2Path, inferenceCalls, drawCalls, scale, outputPath, response,
                   outputDirExists, outputFiles, writeLog, clock>>
    /\ UNCHANGED <<ioVars, writeState>>

\* fs.existsSync / fs.mkdirSync of ensureOutputDir
ensureOutputDir == outputDirExists' = (IF ~outputDirExists THEN TRUE ELSE outputDirExists)

\* loadImage settles. Rejected: the catch block resolves with null.
\* Resolved: the canvas is drawn, the output directory is made sure of (a
\* failing mkdirSync goes to the catch block), the output path is computed
\* from the clock and fs.writeFile is issued.
LoadSettles(p) ==
    /\ pc[p] = "loading"
    /\ \/ /\ HighlightFails(p, JsError("Error", <<Str("Unsupported image type")>>))
          /\ UNCHANGED <<drawCalls, scale, outputPath, outputDirExists, writeState>>
       \/ LET r == Render(differences[p], processedDims[p], TrueW, TrueH)
          IN  /\ drawCalls' = [drawCalls EXCEPT ![p] = r.calls]
              /\ IF r.threw
                 THEN /\ HighlightFails(p, r.error)
                      /\ UNCHANGED <<scale, outputPath, outputDirExists, writeState>>
                 ELSE /\ scale' = [scale EXCEPT ![p] =
                             [scaleX |-> r.scaleX, scaleY |-> r.scaleY]]
                      /\ \/ /\ ensureOutputDir
                            /\ outputPath' = [outputPath EXCEPT ![p] =
                                   OutputPath(image2Path[p], clock)]
                            /\ pc' = [pc EXCEPT ![p] = "writing"]
                            /\ writeState' = [writeState EXCEPT ![p] = "issued"]
                            /\ UNCHANGED <<result, consoleError>>
                         \/ /\ ~outputDirExists
                            /\ HighlightFails(p, JsError("Error", <<Str("EACCES mkdir")>>))
                            /\ UNCHANGED <<outputPath, outputDirExists, writeState>>
    /\ UNCHANGED <<image1Path, image2Path, content, differences, processedDims,
                   inferenceCalls, loadCalls, thrown, response, outputFiles, writeLog,
                   clock>>
    /\ UNCHANGED ioVars

\* fs.writeFile opens the path it was given (flag 'w': create or truncate)
\* while the caller still waits at the await: the file is in ./output from
\* here on, whether or not it was there before. Or the open fails.
WriteOpens(p) ==
    /\ pc[p] = "writing"
    /\ writeState[p] = "issued"
    /\ \/ /\ outputFiles' = outputFiles \cup {outputPath[p].file}
          /\ writeLog' = writeLog \cup
                {[proc |-> p, file |-> outputPath[p].file,
                  existed |-> outputPath[p].file \in outputFiles]}
          /\ writeState' = [writeState EXCEPT ![p] = "open"]
       \/ /\ writeState' = [writeState EXCEPT ![p] = "failed"]
          /\ UNCHANGED <<outputFiles, writeLog>>
    /\ UNCHANGED <<pc, image1Path, image2Path, content, differences, processedDims,
                   inferenceCalls, loadCalls, drawCalls, scale, outputPath, thrown,
                   result, response, consoleError, outputDirExists, clock>>
    /\ UNCHANGED ioVars

\* the promise of fs.writeFile settles, turns after the file was opened:
\* fulfilled, the path is returned; rejected (the open failed, or a write to
\* the open file did, which leaves the file where it is), the catch block
\* resolves with null
WriteSettles(p) ==
    /\ pc[p] = "writing"
    /\ writeState[p] \in {"open", "failed"}
    /\ writeState' = [writeState EXCEPT ![p] = "settled"]
    /\ IF writeState[p] = "failed"
       THEN HighlightFails(p, JsError("Error", <<Str("EACCES")>>))
       ELSE \/ /\ CompareReturns(p, outputPath[p])
               /\ UNCHANGED consoleError
            \/ HighlightFails(p, JsError("Error", <<Str("ENOSPC")>>))
    /\ UNCHANGED <<image1Path, image2Path, content, differences, processedDims, inferenceCalls,
                   loadCalls, drawCalls, scale, outputPath, thrown, response,
                   outputDirExists, outputFiles, writeLog, clock>>
    /\ UNCHANGED ioVars

(* ---------------------------- POST /compare ---------------------------- *)
\* a variant of the route that answers a null path with the error alone
RouteResponseWithoutAnalysis(res) ==
    IF res.highlightedImagePath = Null
    THEN [status |-> 500,
          body |-> [error |-> "Failed to generate highlighted image"]]
    ELSE [status |-> 200,
          body |-> [analysis |-> res.analysis,
                    differences |-> res.differences,
                    highlightedImagePath |->
                        <<"/outputs/">> \o res.highlightedImagePath.file]]

\* the body the route sends for a value compareImages returned
RouteResponse(res) ==
    IF res.highlightedImagePath = Null
    THEN [status |-> 500,
          body |-> [error |-> "Failed to generate highlighted image",
                    analysis |-> res.analysis,
                    differences |-> res.differences]]
    ELSE [status |-> 200,
          body |-> [analysis |-> res.analysis,
                    differences |-> res.differences,
                    highlightedImagePath |->
                        <<"/outputs/">> \o res.highlightedImagePath.file]]

\* the route continues after `await compareImages(...)`
Respond(p) ==
    /\ pc[p] \in {"returned", "threw"}
    /\ pc' = [pc EXCEPT ![p] = "done"]
    /\ IF pc[p] = "returned"
       THEN /\ response' = [response EXCEPT ![p] = RouteResponse(result[p])]
            /\ UNCHANGED consoleError
       ELSE /\ response' = [response EXCEPT ![p] = RouteErrorResponse(thrown[p])]
            /\ consoleError' = [consoleError EXCEPT ![p] =
                   @ \o << <<Str("Error processing comparison:"), ErrVal(thrown[p])>> >>]
    /\ UNCHANGED <<image1Path, image2Path, content, differences, processedDims, inferenceCalls,
                   loadCalls, drawCalls, scale, outputPath, thrown, result,
                   outputDirExists, outputFiles, writeLog, clock>>
    /\ UNCHANGED <<ioVars, writeState>>

\* the wall clock advances by a millisecond
Tick ==
    /\ clock < MaxClock
    /\ clock' = clock + 1
    /\ UNCHANGED <<pc, image1Path, image2Path, content, differences, processedDims, inferenceCalls,
                   loadCalls, drawCalls, scale, outputPath, thrown, result, response,
                   consoleError, outputDirExists, outputFiles, writeLog>>
    /\ UNCHANGED <<ioVars, writeState>>

(* ---------------------------- specifications --------------------------- *)
\* one request, every response text
Next ==
    \/ Upload(1)
    \/ Request(1)
    \/ Access(1)
    \/ ReadFiles(1)
    \/ InferenceFails(1)
    \/ InferenceReturns(1, Responses)
    \/ LoadSettles(1)
    \/ WriteOpens(1)
    \/ WriteSettles(1)
    \/ Respond(1)

Spec == Init /\ [][Next]_vars

\* concurrent requests while the clock runs
NextConc ==
    \/ Tick
    \/ \E p \in Procs :
          \/ Upload(p)
          \/ Request(p)
          \/ Access(p)
          \/ ReadFiles(p)
          \/ InferenceFails(p)
          \/ InferenceReturns(p, ConcResponses)
          \/ LoadSettles(p)
          \/ WriteOpens(p)
          \/ WriteSettles(p)
          \/ Respond(p)

SpecConc == Init /\ [][NextConc]_vars

(* ------------------------- notions the claims use ---------------------- *)
\* the text has a block the extractor's pattern matches for objectName
HasBlock(text, objectName) ==
    \E i \in DOMAIN text :
        /\ text[i].kind = "fence"
        /\ Lower(text[i].tag) = "json"
        /\ text[i].key = objectName

\* the response of p was parsed and its differences list is empty
EmptyDifferences(p) ==
    /\ differences[p] # Null
    /\ Len(differences[p].differences) = 0

\* p has written nothing and asked for no write
NothingWritten(p) ==
    /\ outputPath[p] = Null
    /\ writeState[p] = "none"
    /\ \A w \in writeLog : w.proc # p

\* console.error printed an entry that starts with `head`
Logged(p, head) ==
    \E i \in DOMAIN consoleError[p] : consoleError[p][i][1] = Str(head)

\* console.error printed the text
LoggedText(p, text) ==
    \E i \in DOMAIN consoleError[p] : Carries(consoleError[p][i], Txt(text))

\* the catch block of createHighlightedImage ran for p
RenderFailed(p) == Logged(p, "Error creating highlighted image:")

\* loadImage rejected for p
LoadRejected(p) ==
    /\ loadCalls[p] = 1
    /\ pc[p] \in {"returned", "done"}
    /\ drawCalls[p] = <<>>

\* the forEach loop ran for p
Drawn(p) == scale[p] # Null

\* the records of p, and the 1-based positions of those with a highlight_area
Records(p) == differences[p].differences

Renderable(p) ==
    LET HasArea(i) == "highlight_area" \in DOMAIN Records(p)[i]
    IN  SelectSeq([i \in 1..Len(Records(p)) |-> i], HasArea)

\* the calls of one kind, in the order they were issued
CallsOf(p, kind) ==
    LET IsKind(c) == c.op = kind /\ "index" \in DOMAIN c
    IN  SelectSeq(drawCalls[p], IsKind)

\* the box computed for the record at 1-based position i
BoxOf(p, i) ==
    ScaledBox(Records(p)[i].highlight_area, scale[p].scaleX, scale[p].scaleY, TrueW, TrueH)

Within(v, lo, hi) == Leq(Num(lo), v) /\ Leq(v, Num(hi))

Degenerate(b) == Leq(b.scaledX2, b.scaledX1) \/ Leq(b.scaledY2, b.scaledY1)

(* -------------------------------- claims ------------------------------- *)
\* C1: a parsed response with an empty differences list makes compareImages
\* return highlightedImagePath = null, with no image load, no canvas call,
\* no ensureOutputDir and no write: the output directory is unchanged.
C1_EmptyListWritesNothing ==
    \A p \in Procs :
        EmptyDifferences(p) =>
            /\ pc[p] \in {"returned", "done"}
            /\ thrown[p] = Null
            /\ result[p].highlightedImagePath = Null
            /\ loadCalls[p] = 0
            /\ drawCalls[p] = <<>>
            /\ NothingWritten(p)
            /\ outputFiles = {}
            /\ ~outputDirExists

C1_Witness ==
    /\ EmptyDifferences(1)
    /\ pc[1] = "done"
    /\ result[1].highlightedImagePath = Null

\* C2 as stated: when the text (its processed_dimensions block extracted)
\* has no fenced block for "differences", the error raised carries the
\* object name and the original response text, and no file is written.
C2_ErrorCarriesNameAndText ==
    \A p \in Procs :
        (/\ pc[p] \in {"threw", "done"}
         /\ content[p] # Null
         /\ ~extractJsonObject(content[p], "processed_dimensions").threw
         /\ ~HasBlock(content[p], "differences")) =>
            /\ Carries(thrown[p].message, Str("differences"))
            /\ Carries(thrown[p].message, Txt(content[p]))
            /\ NothingWritten(p)

\* C2 amended: when the processed_dimensions block was extracted and the
\* text has no fenced block for "differences", compareImages throws an Error
\* whose message names "differences"; the original text is printed by
\* console.error and is not part of the error or of the HTTP response; no
\* image is loaded and no file is written.
C2_ErrorNamesObjectTextIsLogged ==
    \A p \in Procs :
        (/\ pc[p] \in {"threw", "done"}
         /\ content[p] # Null
         /\ ~extractJsonObject(content[p], "processed_dimensions").threw
         /\ ~HasBlock(content[p], "differences")) =>
            /\ thrown[p].name = "Error"
            /\ Carries(thrown[p].message, Str("differences"))
            /\ ~Carries(thrown[p].message, Txt(content[p]))
            /\ LoggedText(p, content[p])
            /\ result[p] = Null
            /\ loadCalls[p] = 0
            /\ NothingWritten(p)
            /\ outputFiles = {}
            /\ pc[p] = "done" =>
                  /\ response[p].status = 500
                  /\ response[p].body.error = thrown[p].message

C2_Witness ==
    /\ pc[1] = "done"
    /\ content[1] # Null
    /\ ~extractJsonObject(content[1], "processed_dimensions").threw
    /\ ~HasBlock(content[1], "differences")
    /\ thrown[1] # Null

\* C3 as stated: for every record with a highlight_area and positive claimed
\* dimensions, the four scaled coordinates used for drawing lie within
\* [0, trueWidth] x [0, trueHeight].
C3_CoordinatesClamped ==
    \A p \in Procs :
        (/\ Drawn(p)
         /\ processedDims[p].width > 0
         /\ processedDims[p].height > 0) =>
            \A k \in DOMAIN Renderable(p) :
                LET b == BoxOf(p, Renderable(p)[k])
                    c == CallsOf(p, "strokeRect")[k]
                IN  /\ c.x = b.scaledX1 /\ c.y = b.scaledY1
                    /\ Within(b.scaledX1, 0, TrueW)
                    /\ Within(b.scaledX2, 0, TrueW)
                    /\ Within(b.scaledY1, 0, TrueH)
                    /\ Within(b.scaledY2, 0, TrueH)

\* C4 as stated: a claimed width or height of zero makes the comparison
\* fail with an error; no scale factor is computed, nothing is drawn and
\* nothing is written.
C4_ZeroDimensionsRejected ==
    \A p \in Procs :
        (/\ processedDims[p] \notin {Null, Undefined}
         /\ Len(Records(p)) > 0
         /\ (processedDims[p].width = 0 \/ processedDims[p].height = 0)) =>
            /\ scale[p] = Null
            /\ drawCalls[p] = <<>>
            /\ NothingWritten(p)
            /\ pc[p] = "done" => (thrown[p] # Null /\ response[p].status = 500)

\* C5: boxes are drawn in input order and the label of a record is its
\* 1-based position in the input list; a record without highlight_area is
\* skipped, the records after it are still drawn and keep their labels.
C5_LabelsAreInputPositions ==
    \A p \in Procs :
        Drawn(p) =>
            /\ Len(CallsOf(p, "strokeRect")) = Len(Renderable(p))
            /\ Len(CallsOf(p, "fillRect")) = Len(Renderable(p))
            /\ Len(CallsOf(p, "strokeText")) = Len(Renderable(p))
            /\ Len(CallsOf(p, "fillText")) = Len(Renderable(p))
            /\ \A k \in DOMAIN Renderable(p) :
                  LET i == Renderable(p)[k]
                      b == BoxOf(p, i)
                      first == Len(LegendCalls(Records(p), TrueW, TrueH)) + 4 * (k - 1)
                  IN  /\ drawCalls[p][first + 1].op = "strokeRect"
                      /\ drawCalls[p][first + 1].x = b.scaledX1
                      /\ drawCalls[p][first + 1].y = b.scaledY1
                      /\ drawCalls[p][first + 1].w = b.width
                      /\ drawCalls[p][first + 1].h = b.height
                      /\ drawCalls[p][first + 2].op = "fillRect"
                      /\ drawCalls[p][first + 3].op = "strokeText"
                      /\ drawCalls[p][first + 3].text = <<ToString(i)>>
                      /\ drawCalls[p][first + 4].op = "fillText"
                      /\ drawCalls[p][first + 4].text = <<ToString(i)>>

C5_Witness ==
    /\ Drawn(1)
    /\ Len(Records(1)) = 2
    /\ "highlight_area" \notin DOMAIN Records(1)[1]
    /\ "highlight_area" \in DOMAIN Records(1)[2]
    /\ CallsOf(1, "fillText")[1].text = <<"2">>
    /\ pc[1] = "done"

\* C6 as stated: "no differences" and a failed render are told apart at
\* every boundary: the value createHighlightedImage resolves with (returned
\* by compareImages as highlightedImagePath) differs, the status and error
\* of the HTTP response differ, and the empty case is answered as a success.
C6_EmptyDistinguishedFromFailure ==
    \A p \in Procs : \A q \in Procs :
        (/\ pc[p] = "done" /\ EmptyDifferences(p)
         /\ pc[q] = "done" /\ RenderFailed(q)) =>
            /\ result[p].highlightedImagePath # result[q].highlightedImagePath
            /\ response[p].status # response[q].status
            /\ response[p].status = 200
            /\ "error" \notin DOMAIN response[p].body

\* C7 as stated: when the target image cannot be decoded, compareImages
\* does not complete normally (an error reaches the route) and no output
\* file is written.
C7_LoadErrorSurfaced ==
    \A p \in Procs :
        LoadRejected(p) =>
            /\ thrown[p] # Null
            /\ result[p] = Null
            /\ NothingWritten(p)

\* C7 amended: when the target image cannot be decoded, the error is
\* printed by console.error and createHighlightedImage resolves with null:
\* compareImages completes normally with highlightedImagePath = null, no
\* error reaches the route, which answers 500 "Failed to generate
\* highlighted image", and no output file is written.
C7_LoadErrorLoggedAndNullReturned ==
    \A p \in Procs :
        LoadRejected(p) =>
            /\ thrown[p] = Null
            /\ RenderFailed(p)
            /\ result[p] # Null
            /\ result[p].highlightedImagePath = Null
            /\ NothingWritten(p)
            /\ outputFiles = {}
            /\ pc[p] = "done" =>
                  /\ response[p].status = 500
                  /\ response[p].body.error = "Failed to generate highlighted image"

C7_Witness ==
    /\ LoadRejected(1)
    /\ pc[1] = "done"
    /\ response[1].status = 500

\* C8 as stated: every write goes to a path that did not exist before it,
\* and no two pending writes target the same path, whatever the
\* interleaving of comparisons.
C8_OutputPathsAreFresh ==
    /\ \A w \in writeLog : ~w.existed
    /\ \A p \in Procs : \A q \in Procs :
          (p # q /\ pc[p] = "writing" /\ pc[q] = "writing") =>
              outputPath[p] # outputPath[q]

\* C9: when rendering or writing fails after a response with a non-empty
\* differences list, compareImages still returns the analysis text and the
\* parsed differences with a null highlightedImagePath, and the route
\* answers with a failure status, the analysis and the differences, and no
\* highlighted image path.
C9_FailedRenderKeepsAnalysis ==
    \A p \in Procs :
        RenderFailed(p) =>
            /\ Len(Records(p)) > 0
            /\ pc[p] \in {"returned", "done"}
            /\ result[p] # Null
            /\ result[p].analysis = content[p]
            /\ result[p].differences = differences[p]
            /\ result[p].highlightedImagePath = Null
            /\ pc[p] = "done" =>
                  /\ response[p].status = 500
                  /\ {"analysis", "differences"} \subseteq DOMAIN response[p].body
                  /\ response[p].body.analysis = content[p]
                  /\ response[p].body.differences = differences[p]
                  /\ "highlightedImagePath" \notin DOMAIN response[p].body

C9_Witness ==
    /\ RenderFailed(1)
    /\ outputPath[1] # Null
    /\ drawCalls[1] # <<>>
    /\ pc[1] = "done"
    /\ response[1].body.differences = differences[1]

\* C10 as stated: a record whose scaled and clamped box has
\* scaledX2 <= scaledX1 or scaledY2 <= scaledY1 gets no rectangle and no
\* label, yet it counts in the legend total and keeps its position.
C10_DegenerateBoxNotDrawn ==
    \A p \in Procs :
        Drawn(p) =>
            /\ drawCalls[p][4].op = "fillText"
            /\ drawCalls[p][4].text[1] = ToString(Len(Records(p)))
            /\ \A i \in DOMAIN Records(p) :
                  (/\ "highlight_area" \in DOMAIN Records(p)[i]
                   /\ Degenerate(BoxOf(p, i))) =>
                      \A k \in DOMAIN drawCalls[p] :
                          "index" \in DOMAIN drawCalls[p][k] =>
                              drawCalls[p][k].index # i - 1

\* the response text of p was received and one of its two blocks could not
\* be extracted
MalformedResponse(p) ==
    /\ content[p] # Null
    /\ \/ extractJsonObject(content[p], "processed_dimensions").threw
       \/ extractJsonObject(content[p], "differences").threw

\* extraction, reconciliation or rendering has begun for p
Processing(p) ==
    \/ content[p] # Null
    \/ differences[p] # Null
    \/ processedDims[p] # Null
    \/ loadCalls[p] > 0
    \/ drawCalls[p] # <<>>
    \/ pc[p] \in {"loading", "writing", "returned"}

\* C11: in one comparison the inference call is issued at most once, and
\* only after both fs.access calls and both fs.readFile calls were
\* fulfilled; extraction and rendering begin only after it returned; a
\* failed access or read, a failed call or a malformed response ends the
\* comparison with a propagated error, with no step issued a second time
\* and nothing rendered.
C11_JoinThenSingleInferenceCall ==
    \A p \in Procs :
        /\ inferenceCalls[p] <= 1
        /\ ioCalls[p].access <= Cardinality(Images)
        /\ ioCalls[p].read <= Cardinality(Images)
        /\ loadCalls[p] <= 1
        /\ ioCalls[p].read > 0 => \A i \in Images : accessState[p][i] = "ok"
        /\ inferenceCalls[p] = 1 =>
              /\ \A i \in Images : accessState[p][i] = "ok"
              /\ \A i \in Images : readState[p][i] = "ok"
        /\ Processing(p) =>
              /\ inferenceCalls[p] = 1
              /\ pc[p] \notin {"idle", "uploading", "uploaded", "access", "read", "infer"}
        /\ (\E i \in Images : "failed" \in {accessState[p][i], readState[p][i]}) =>
              /\ pc[p] \in {"threw", "done"}
              /\ thrown[p] # Null
              /\ inferenceCalls[p] = 0
        /\ MalformedResponse(p) =>
              /\ pc[p] \in {"threw", "done"}
              /\ thrown[p] # Null
              /\ thrown[p].name \in {"Error", "SyntaxError"}
        /\ thrown[p] # Null =>
              /\ pc[p] \in {"threw", "done"}
              /\ result[p] = Null
              /\ differences[p] = Null
              /\ loadCalls[p] = 0
              /\ drawCalls[p] = <<>>
              /\ NothingWritten(p)
              /\ pc[p] = "done" => response[p] = RouteErrorResponse(thrown[p])

\* a malformed response after the join: both reads fulfilled, one call, the
\* error propagated to the route
C11_Witness ==
    /\ pc[1] = "done"
    /\ \A i \in Images : readState[1][i] = "ok"
    /\ inferenceCalls[1] = 1
    /\ MalformedResponse(1)
    /\ thrown[1] # Null
    /\ response[1].status = 500

====
